---------------------------- MODULE Spec2Model ----------------------------
(***************************************************************************)
(* VibeCue Protocol Tester v2.0 (src/vibecue_v2.js) as a state machine.    *)
(*                                                                         *)
(* Text is modelled by TLA+ strings, one character per position.  The      *)
(* character WIDE stands for one non-ASCII BMP character (U+D55C, three    *)
(* bytes in UTF-8); every other character of the model is ASCII.           *)
(* Numbers produced by parseInt are <<n>>, and NaN is <<>>.                *)
(* Object handles (device, GATT server, service, characteristics) are the  *)
(* number of the device they belong to; null is 0.                         *)
(***************************************************************************)
EXTENDS Integers, Sequences, FiniteSets, TLC

VARIABLES
    bluetoothDevice,      \* line 13
    gattServer,           \* line 14
    writeCharacteristic,  \* line 15
    notifyCharacteristic, \* line 16
    isConnected,          \* line 17
    evalDataRows,         \* line 18
    scanResults,          \* line 19
    pc,                   \* per connect attempt: the await it is suspended at
    service,              \* per connect attempt: the local const service
    gattUp,               \* the GATT servers whose .connected is true
    listening,            \* the notify characteristics handleNotification listens on
    received,             \* the notifications delivered, where a specification
                          \* bounds their number
    last                  \* the operation that made the last step, its input,
                          \* its outcome and the packets it handed to writeValue
                          \* (stepRecord)

vars == <<bluetoothDevice, gattServer, writeCharacteristic, notifyCharacteristic,
          isConnected, evalDataRows, scanResults, pc, service, gattUp, listening,
          received, last>>

connVars == <<bluetoothDevice, gattServer, writeCharacteristic,
              notifyCharacteristic, isConnected, pc, service, gattUp, listening>>

null == 0
NaN == <<>>
WIDE == "~"

\* The record of a step.  arg is the texts the operation read, clicked the
\* check boxes it found checked and device the device of a connect attempt;
\* the last six fields are filled by handleNotification.
stepRecord(op, arg, command, result, wrote) ==
    [op |-> op, arg |-> arg, clicked |-> <<>>, device |-> null, command |-> command,
     result |-> result, wrote |-> wrote, payload |-> "", scanBefore |-> <<>>,
     rowsBefore |-> <<>>, branch |-> "", fields |-> <<>>, timeout |-> FALSE]

-----------------------------------------------------------------------------
(* JavaScript string built-ins, as the source uses them.                   *)

CharAt(s, i) == SubSeq(s, i, i)

\* String.prototype.startsWith
StartsWith(s, p) == Len(s) >= Len(p) /\ SubSeq(s, 1, Len(p)) = p

\* String.prototype.endsWith
EndsWith(s, p) == Len(s) >= Len(p) /\ SubSeq(s, Len(s) - Len(p) + 1, Len(s)) = p

\* String.prototype.includes
Includes(s, p) == \E i \in 1..(Len(s) - Len(p) + 1) : SubSeq(s, i, i + Len(p) - 1) = p

\* String.prototype.substring(n): the text from 0-based index n on
Substring(s, n) == SubSeq(s, n + 1, Len(s))

\* the characters String.prototype.trim and parseInt strip
IsWhiteSpace(c) == c \in {" ", "\t", "\n", "\r", "\f"}

\* the characters the regular expression atom . does not match
IsLineTerminator(c) == c \in {"\n", "\r"}

\* String.prototype.trimStart: the text from the first character that is
\* not white space
TrimStart(s) ==
    LET kept == {i \in 1..Len(s) : ~IsWhiteSpace(CharAt(s, i))}
    IN IF kept = {} THEN ""
       ELSE SubSeq(s, CHOOSE i \in kept : \A j \in kept : i <= j, Len(s))

\* String.prototype.trimEnd: the text up to the last character that is not
\* white space
TrimEnd(s) ==
    LET kept == {i \in 1..Len(s) : ~IsWhiteSpace(CharAt(s, i))}
    IN IF kept = {} THEN ""
       ELSE SubSeq(s, 1, CHOOSE i \in kept : \A j \in kept : i >= j)

\* String.prototype.trim
Trim(s) == TrimEnd(TrimStart(s))

\* String.prototype.split on a one-character separator: a sequence of strings
RECURSIVE Split(_, _)
Split(s, sep) ==
    IF \E i \in 1..Len(s) : CharAt(s, i) = sep
    THEN LET i == CHOOSE k \in 1..Len(s) :
                    /\ CharAt(s, k) = sep
                    /\ \A j \in 1..(k - 1) : CharAt(s, j) # sep
         IN <<SubSeq(s, 1, i - 1)>> \o Split(Substring(s, i), sep)
    ELSE <<s>>

\* Array.prototype.join
RECURSIVE Join(_, _)
Join(parts, sep) ==
    IF parts = <<>> THEN ""
    ELSE IF Len(parts) = 1 THEN parts[1]
    ELSE parts[1] \o sep \o Join(Tail(parts), sep)

LowerCase == "abcdefghijklmnopqrstuvwxyz"
UpperCase == "ABCDEFGHIJKLMNOPQRSTUVWXYZ"

\* the upper case of each lower case letter
UpperOf ==
    [c \in {CharAt(LowerCase, i) : i \in 1..26} |->
        CharAt(UpperCase, CHOOSE i \in 1..26 : CharAt(LowerCase, i) = c)]

UpperChar(c) == IF c \in DOMAIN UpperOf THEN UpperOf[c] ELSE c

RECURSIVE UpperFrom(_, _)
UpperFrom(s, i) ==
    IF i > Len(s) THEN "" ELSE UpperChar(CharAt(s, i)) \o UpperFrom(s, i + 1)

\* String.prototype.toUpperCase
ToUpperCase(s) == UpperFrom(s, 1)

HexDigits == "0123456789ABCDEF"

\* the value of a digit in the given radix, -1 when c is no digit of it
DigitValue(c, radix) ==
    LET u == UpperChar(c)
    IN IF \E i \in 1..radix : CharAt(HexDigits, i) = u
       THEN (CHOOSE i \in 1..radix : CharAt(HexDigits, i) = u) - 1
       ELSE -1

\* the value of the longest prefix of s made of digits of the radix, as
\* <<value, number of digits>>
RECURSIVE DigitPrefix(_, _, _, _)
DigitPrefix(s, radix, acc, n) ==
    IF s # "" /\ DigitValue(CharAt(s, 1), radix) >= 0
    THEN DigitPrefix(Substring(s, 1), radix,
                     acc * radix + DigitValue(CharAt(s, 1), radix), n + 1)
    ELSE <<acc, n>>

\* parseInt(s) with no radix argument: leading white space is skipped, a sign
\* is read, 0x or 0X selects radix 16, and the longest digit prefix is the
\* value; NaN when there is no digit
ParseInt(s) ==
    LET t    == TrimStart(s)
        neg  == StartsWith(t, "-")
        u    == IF StartsWith(t, "-") \/ StartsWith(t, "+") THEN Substring(t, 1) ELSE t
        hex  == StartsWith(u, "0x") \/ StartsWith(u, "0X")
        d    == IF hex THEN DigitPrefix(Substring(u, 2), 16, 0, 0)
                       ELSE DigitPrefix(u, 10, 0, 0)
    IN IF d[2] = 0 THEN NaN
       ELSE IF neg THEN <<0 - d[1]>> ELSE <<d[1]>>

CRLF == "\r\n"

\* n times the character c
RECURSIVE Repeat(_, _)
Repeat(c, n) == IF n <= 0 THEN "" ELSE c \o Repeat(c, n - 1)

-----------------------------------------------------------------------------
(* Framer: buildPacket and parsePacket.                                    *)

MaxPacketBytes == 64

\* the ASCII characters from code 32 (space) to code 95, and from code 97 on
AsciiLow == " !\"#$%&'()*+,-./0123456789:;<=>?@ABCDEFGHIJKLMNOPQRSTUVWXYZ[\\]^_"
AsciiHigh == "abcdefghijklmnopqrstuvwxyz{|}"

\* the UTF-8 bytes TextEncoder produces for each character of the model
Utf8 ==
    [c \in {CharAt(AsciiLow, i) : i \in 1..Len(AsciiLow)} |->
        <<31 + (CHOOSE i \in 1..Len(AsciiLow) : CharAt(AsciiLow, i) = c)>>]
    @@ [c \in {CharAt(AsciiHigh, i) : i \in 1..Len(AsciiHigh)} |->
        <<96 + (CHOOSE i \in 1..Len(AsciiHigh) : CharAt(AsciiHigh, i) = c)>>]
    @@ ("\t" :> <<9>>) @@ ("\n" :> <<10>>) @@ ("\f" :> <<12>>) @@ ("\r" :> <<13>>)
    @@ (WIDE :> <<237, 149, 156>>)

\* new TextEncoder().encode(s), from the character at position i on
RECURSIVE EncodeFrom(_, _)
EncodeFrom(s, i) ==
    IF i > Len(s) THEN <<>> ELSE Utf8[CharAt(s, i)] \o EncodeFrom(s, i + 1)

\* new TextEncoder().encode(s)
TextEncode(s) == EncodeFrom(s, 1)

\* the character of each one-byte UTF-8 sequence of the model
AsciiChar ==
    [b \in {Utf8[c][1] : c \in {x \in DOMAIN Utf8 : Len(Utf8[x]) = 1}} |->
        CHOOSE c \in DOMAIN Utf8 : Utf8[c] = <<b>>] @@ <<>>

\* U+FFFD, which the decoder puts for bytes that are no character; no text of
\* the model holds it, and it is written as a question mark
REPLACEMENT == "?"

\* new TextDecoder().decode(bytes), from the byte at position i on: a byte
\* below 128 is one character, and a byte from 224 to 239 leads a sequence of
\* three bytes, whose code point is U+D55C for the one wide character
RECURSIVE DecodeFrom(_, _)
DecodeFrom(bytes, i) ==
    IF i > Len(bytes) THEN ""
    ELSE IF bytes[i] < 128
    THEN (IF bytes[i] \in DOMAIN AsciiChar THEN AsciiChar[bytes[i]] ELSE REPLACEMENT)
         \o DecodeFrom(bytes, i + 1)
    ELSE IF /\ bytes[i] \in 224..239
            /\ i + 2 <= Len(bytes)
            /\ bytes[i + 1] \in 128..191
            /\ bytes[i + 2] \in 128..191
    THEN (IF (bytes[i] - 224) * 4096 + (bytes[i + 1] - 128) * 64 + (bytes[i + 2] - 128)
              = 54620
          THEN WIDE ELSE REPLACEMENT)
         \o DecodeFrom(bytes, i + 3)
    ELSE REPLACEMENT \o DecodeFrom(bytes, i + 1)

\* new TextDecoder().decode(bytes)
TextDecode(bytes) == DecodeFrom(bytes, 1)

\* buildPacket returns null for an oversize payload; a packet is never empty
nullPacket == <<>>

\* the bug of never adding the terminator
buildPacketUnterminated(payload) ==
    LET packet == TextEncode(payload)
    IN IF Len(packet) > MaxPacketBytes THEN nullPacket ELSE packet

\* the bug of a missing size check
buildPacketUnchecked(payload) ==
    TextEncode(IF EndsWith(payload, "\r\n") THEN payload ELSE payload \o "\r\n")

buildPacket(payload) ==
    LET terminated == IF EndsWith(payload, "\r\n") THEN payload ELSE payload \o "\r\n"
        packet == TextEncode(terminated)
    IN IF Len(packet) > MaxPacketBytes THEN nullPacket ELSE packet

\* the bug of removing the trailing white space only
parsePacketTrimEnd(text) == TrimEnd(text)

\* parsePacket, given the text the bytes of the notification decode to
parsePacket(text) == Trim(text)

-----------------------------------------------------------------------------
(* The inputs of the operator that the specifications choose from.         *)

MaxBody == 62

\* command bodies around the size limit: ASCII only, with one three-byte
\* character, and with a line terminator of their own
TxCommands ==
    { "DM:STATUS:REQ", "", "EVAL:STOP" \o CRLF, "DM:SCAN:START\n" }
    \cup { Repeat("A", n) : n \in (MaxBody - 4)..MaxBody }
    \cup { Repeat("A", n - 3) \o WIDE : n \in (MaxBody - 4)..MaxBody }
    \cup { Repeat("A", n - 2) \o CRLF : n \in (MaxBody - 1)..(MaxBody + 2) }
    \cup { Repeat("A", n - 1) \o "\r" : n \in (MaxBody - 1)..MaxBody }

MacPairs == <<"5C", "f2", "86", "47", "73", "59", "aB">>

\* n pairs of hexadecimal digits, each followed by sep except the last
MacOf(n, sep) == Join(SubSeq(MacPairs, 1, n), sep)

MacInputs ==
    { lead \o MacOf(n, sep) \o trail :
        lead \in {"", " "}, trail \in {"", " ", CRLF},
        n \in 5..7, sep \in {"", ":", "-"} }
    \cup { "", "   ", ":", "-:-", "5CF28647735", "5CF28647735G", "5C F2 86 47 73 59",
           "5c-F2:86-47:73:59", "-5CF286477359:", "5CF2 86477359", "5CF28647735" \o WIDE,
           "5C:F2:86:47:73:5", "0x5CF2864773", "5C::F2--86:47:73:59" }

\* the location boxes in the order the operator checked them
Clicks ==
    { <<>>, <<1>>, <<2>>, <<3>>, <<1, 2>>, <<2, 1>>, <<1, 3>>, <<3, 1>>, <<2, 3>>,
      <<3, 2>>, <<1, 2, 3>>, <<3, 2, 1>>, <<2, 3, 1>> }

CustomTexts ==
    { "", " ", "\t" \o CRLF, " DM:STATUS:REQ ", "EVAL:START", "X" \o CRLF, "$EVAL:STOP",
      " " \o Repeat("A", MaxBody - 1) \o " ", Repeat("A", MaxBody) \o CRLF }

DeviceTypes == {"", "1", "2", "3", "4"}

Locations == {"L1", "R2"}

FieldValues == {"", "40"}

\* the commands of the session specification
SessionCommands == { "DM:STATUS:REQ", Repeat("A", 61), Repeat("A", 62) }

-----------------------------------------------------------------------------
(* sendCommand and the command builders.                                   *)

\* the command sendDeviceType builds, "" when it returns early; type is the
\* value of the checked deviceType radio button, "" when none is checked
deviceTypeCommand(type) == IF type = "" THEN "" ELSE "DM:TYPE:" \o type

\* the values of the location checkboxes, in document order
LocationCodes == <<"L1", "R1", "L2">>

\* the values of the checked boxes, as querySelectorAll lists them: in
\* document order.  clicked is the boxes in the order the operator checked them.
RECURSIVE CheckedValues(_, _)
CheckedValues(clicked, i) ==
    IF i > Len(LocationCodes) THEN <<>>
    ELSE (IF \E k \in 1..Len(clicked) : clicked[k] = i THEN <<LocationCodes[i]>> ELSE <<>>)
         \o CheckedValues(clicked, i + 1)

\* the bug of a missing check of the three numeric fields
manualStartCommandUnchecked(freq, intensity, duration, clicked) ==
    LET locations == Join(CheckedValues(clicked, 1), ",")
    IN IF locations = "" THEN ""
       ELSE "MAN:START:" \o freq \o "," \o intensity \o "," \o duration \o "," \o locations

\* the command sendManualStart builds, "" when it returns early
manualStartCommand(freq, intensity, duration, clicked) ==
    IF freq = "" \/ intensity = "" \/ duration = "" THEN ""
    ELSE LET locations == Join(CheckedValues(clicked, 1), ",")
         IN IF locations = "" THEN ""
            ELSE "MAN:START:" \o freq \o "," \o intensity \o "," \o duration
                              \o "," \o locations

RECURSIVE StripFrom(_, _)
StripFrom(s, i) ==
    IF i > Len(s) THEN ""
    ELSE (IF CharAt(s, i) \in {":", "-"} THEN "" ELSE CharAt(s, i)) \o StripFrom(s, i + 1)

\* mac.replace(/[:-]/g, '')
StripSeparators(s) == StripFrom(s, 1)

\* /^[0-9A-F]+$/.test(s)
IsUpperHex(s) ==
    /\ s # ""
    /\ \A i \in 1..Len(s) : \E k \in 1..16 : CharAt(HexDigits, k) = CharAt(s, i)

\* the bug of a missing trim of the MAC input
connectCommandUntrimmed(rawMac, location) ==
    LET cleanMac == StripSeparators(ToUpperCase(rawMac))
    IN IF Len(cleanMac) # 12 \/ ~IsUpperHex(cleanMac) THEN ""
       ELSE "DM:CONN:" \o cleanMac \o ":" \o location

\* the command sendConnectDevice builds, "" when it returns early
connectCommand(rawMac, location) ==
    LET mac == ToUpperCase(Trim(rawMac))
    IN IF mac = "" THEN ""
       ELSE LET cleanMac == StripSeparators(mac)
            IN IF Len(cleanMac) # 12 \/ ~IsUpperHex(cleanMac) THEN ""
               ELSE "DM:CONN:" \o cleanMac \o ":" \o location

\* the command sendCustomCommand builds, "" when it returns early
customCommand(text) == Trim(text)

\* the builders' commands, computed once for each input the specifications
\* choose
DeviceTypeCommand == [type \in DeviceTypes |-> deviceTypeCommand(type)] @@ <<>>

ManualStartCommand ==
    [arg \in FieldValues \X {"", "5"} \X {"", "10"} \X Clicks |->
        manualStartCommand(arg[1], arg[2], arg[3], arg[4])] @@ <<>>

ConnectCommand ==
    [arg \in MacInputs \X Locations |-> connectCommand(arg[1], arg[2])] @@ <<>>

CustomCommand == [text \in CustomTexts |-> customCommand(text)] @@ <<>>

\* every command the specifications hand to sendCommand
Commands ==
    SessionCommands \cup TxCommands
    \cup {DeviceTypeCommand[x] : x \in DOMAIN DeviceTypeCommand}
    \cup {ManualStartCommand[x] : x \in DOMAIN ManualStartCommand}
    \cup {ConnectCommand[x] : x \in DOMAIN ConnectCommand}
    \cup {CustomCommand[x] : x \in DOMAIN CustomCommand}

\* buildPacket(`$${command}`), computed once for each command
Packet == [command \in Commands |-> buildPacket("$" \o command)] @@ <<>>

\* the bug of a missing connection gate
canSendAlways(connected, wc) == TRUE

\* the gate of sendCommand: isConnected && writeCharacteristic
canSend(connected, wc) == connected /\ wc # null

\* the bug of writing the packet again when the write fails
sendCommandOutcomeRetrying(packet, writeOk) ==
    IF ~canSend(isConnected, writeCharacteristic)
    THEN [result |-> "NotConnected", wrote |-> <<>>]
    ELSE IF packet = nullPacket
    THEN [result |-> "PayloadTooLong", wrote |-> <<>>]
    ELSE IF writeOk THEN [result |-> "Sent", wrote |-> <<packet>>]
    ELSE [result |-> "SendFailed", wrote |-> <<packet, packet>>]

\* What one call of sendCommand does: its outcome and the packets it hands to
\* writeCharacteristic.writeValue.  packet is buildPacket(`$${command}`), and
\* writeOk is whether the transport resolves the write; a rejected write is
\* caught and logged.
sendCommandOutcome(packet, writeOk) ==
    IF ~canSend(isConnected, writeCharacteristic)
    THEN [result |-> "NotConnected", wrote |-> <<>>]
    ELSE IF packet = nullPacket
    THEN [result |-> "PayloadTooLong", wrote |-> <<>>]
    ELSE [result |-> IF writeOk THEN "Sent" ELSE "SendFailed", wrote |-> <<packet>>]

\* a call of sendCommand made by operation op on input arg
Send(op, arg, clicked, command) ==
    /\ \E writeOk \in BOOLEAN :
          LET o == sendCommandOutcome(Packet[command], writeOk)
          IN last' = [stepRecord(op, arg, command, o.result, o.wrote)
                        EXCEPT !.clicked = clicked]
    /\ UNCHANGED <<connVars, evalDataRows, scanResults, received>>

\* an early return of operation op before sendCommand is called
Reject(op, arg, clicked, why) ==
    /\ last' = [stepRecord(op, arg, "", why, <<>>) EXCEPT !.clicked = clicked]
    /\ UNCHANGED <<connVars, evalDataRows, scanResults, received>>

sendCommand(command) == Send("sendCommand", <<command>>, <<>>, command)

sendDeviceType(type) ==
    LET command == DeviceTypeCommand[type]
    IN IF command = ""
       THEN Reject("sendDeviceType", <<type>>, <<>>, "NoDeviceType")
       ELSE Send("sendDeviceType", <<type>>, <<>>, command)

sendManualStart(freq, intensity, duration, clicked) ==
    LET arg == <<freq, intensity, duration>>
        command == ManualStartCommand[<<freq, intensity, duration, clicked>>]
    IN IF command = ""
       THEN Reject("sendManualStart", arg, clicked, "MissingField")
       ELSE Send("sendManualStart", arg, clicked, command)

sendConnectDevice(rawMac, location) ==
    LET arg == <<rawMac, location>>
        command == ConnectCommand[arg]
    IN IF command = ""
       THEN Reject("sendConnectDevice", arg, <<>>, "InvalidMac")
       ELSE Send("sendConnectDevice", arg, <<>>, command)

sendCustomCommand(text) ==
    LET command == CustomCommand[text]
    IN IF command = ""
       THEN Reject("sendCustomCommand", <<text>>, <<>>, "EmptyCommand")
       ELSE Send("sendCustomCommand", <<text>>, <<>>, command)

-----------------------------------------------------------------------------
(* Scan results.                                                           *)

\* the bug of replacing the whole record on an update
addScanResultReplacing(results, mac, rssi, name) ==
    IF \E i \in 1..Len(results) : results[i].mac = mac
    THEN [i \in 1..Len(results) |->
            IF results[i].mac = mac
            THEN [mac |-> mac, rssi |-> rssi, name |-> name]
            ELSE results[i]]
    ELSE Append(results, [mac |-> mac, rssi |-> rssi, name |-> name])

\* addScanResult: scanResults after the call.  find returns the first record
\* with the mac, and only its rssi is assigned.
addScanResult(results, mac, rssi, name) ==
    IF \E i \in 1..Len(results) : results[i].mac = mac
    THEN LET first == CHOOSE i \in 1..Len(results) :
                          /\ results[i].mac = mac
                          /\ \A j \in 1..(i - 1) : results[j].mac # mac
         IN [results EXCEPT ![first].rssi = rssi]
    ELSE Append(results, [mac |-> mac, rssi |-> rssi, name |-> name])

\* the bug of keeping the results of the previous scan
clearScanResultsKeeping(results) == results

\* clearScanResults: scanResults after the call
clearScanResults(results) == <<>>

-----------------------------------------------------------------------------
(* updateDeviceStatus.                                                     *)

BLE_RAW == "#BLE:RAW:"
SCAN_FOUND == "#DM:SCAN:FOUND:"

\* the bug of taking +OK, +READY and +MULTI as prefixes too
rawKindByPrefix(rawResp) ==
    IF StartsWith(rawResp, "+OK") THEN "+OK"
    ELSE IF StartsWith(rawResp, "+READY") THEN "+READY"
    ELSE IF StartsWith(rawResp, "+MULTI") THEN "+MULTI"
    ELSE IF StartsWith(rawResp, "+CONN") THEN "+CONN"
    ELSE IF StartsWith(rawResp, "+DISCONN") THEN "+DISCONN"
    ELSE "unknown"

\* the icon chosen for the text after #BLE:RAW:
rawKind(rawResp) ==
    IF rawResp = "+OK" THEN "+OK"
    ELSE IF rawResp = "+READY" THEN "+READY"
    ELSE IF rawResp = "+MULTI" THEN "+MULTI"
    ELSE IF StartsWith(rawResp, "+CONN") THEN "+CONN"
    ELSE IF StartsWith(rawResp, "+DISCONN") THEN "+DISCONN"
    ELSE "unknown"

\* the bug of counting the segments from 1
PartOrNext(parts, i, dflt) == IF Len(parts) > i + 1 THEN parts[i + 2] ELSE dflt

\* parts.length > i ? parts[i] : dflt, for the 0-based index i
PartOr(parts, i, dflt) == IF Len(parts) > i THEN parts[i + 1] ELSE dflt

\* the branch of the if-else chain that message takes
statusBranch(message) ==
    IF StartsWith(message, BLE_RAW) THEN "bleRaw"
    ELSE IF StartsWith(message, SCAN_FOUND) THEN "scanFound"
    ELSE IF Includes(message, "INIT_OK") \/ Includes(message, "SCAN_STARTED") THEN "initOk"
    ELSE IF Includes(message, "DUP_MAC:") THEN "dupMac"
    ELSE IF Includes(message, "DUP_LOC:") THEN "dupLoc"
    ELSE IF Includes(message, "LOC_NOT_ALLOWED:") THEN "locNotAllowed"
    ELSE IF Includes(message, "TYPE_FULL:") THEN "typeFull"
    ELSE IF Includes(message, "NO_TYPE") THEN "noType"
    ELSE IF Includes(message, "SLOT_FULL:") THEN "slotFull"
    ELSE IF StartsWith(message, "#ERR") THEN "error"
    ELSE IF StartsWith(message, "#") THEN "success"
    ELSE "other"

\* the values the branch extracts from message and shows
statusFields(message) ==
    LET branch == statusBranch(message)
        parts == Split(message, ":")
    IN IF branch = "bleRaw" THEN <<rawKind(Substring(message, Len(BLE_RAW)))>>
       ELSE IF branch = "scanFound"
       THEN LET data == Split(Substring(message, Len(SCAN_FOUND)), ",")
            IN IF Len(data) >= 3 THEN <<data[1], data[2], ParseInt(data[3])>> ELSE <<>>
       ELSE IF branch \in {"dupMac", "dupLoc", "locNotAllowed"}
       THEN <<PartOr(parts, 2, "unknown"), PartOr(parts, 3, "unknown")>>
       ELSE IF branch = "typeFull" THEN <<PartOr(parts, 2, "?"), PartOr(parts, 3, "?")>>
       ELSE IF branch = "slotFull" THEN <<PartOr(parts, 2, "8")>>
       ELSE <<>>

\* updateDeviceStatus: scanResults after the call, given the branch that
\* message takes and the values it extracts
updateDeviceStatus(results, branch, fields) ==
    IF branch = "scanFound"
    THEN IF fields # <<>>
         THEN addScanResult(results, fields[1], fields[3], fields[2])
         ELSE results
    ELSE IF branch = "initOk" THEN clearScanResults(results)
    ELSE results

-----------------------------------------------------------------------------
(* handleEvalStopData, clearEvalData.                                      *)

EVAL_STOP_OK == "#EVAL:STOP:STOP_OK:"

\* message.match(/#EVAL:STOP:STOP_OK:(.+)/): the text of group 1, "" when
\* there is no match.  The match starts at the first occurrence of the
\* literal that is followed by a character other than a line terminator, and
\* the group runs to the next line terminator or the end.
evalStopMatch(message) ==
    LET n == Len(EVAL_STOP_OK)
        starts == {i \in 1..(Len(message) - n) :
                      /\ SubSeq(message, i, i + n - 1) = EVAL_STOP_OK
                      /\ ~IsLineTerminator(CharAt(message, i + n))}
    IN IF starts = {} THEN ""
       ELSE LET i == CHOOSE k \in starts : \A j \in starts : k <= j
                from == i + n
                stops == {k \in from..Len(message) : IsLineTerminator(CharAt(message, k))}
                to == IF stops = {} THEN Len(message)
                      ELSE (CHOOSE k \in stops : \A j \in stops : k <= j) - 1
            IN SubSeq(message, from, to)

\* dataMatch[1].split(',').map(s => parseInt(s.trim()))
evalStopParts(data) ==
    LET fields == Split(data, ",")
    IN [i \in 1..Len(fields) |-> ParseInt(Trim(fields[i]))]

\* the rows handleEvalStopData pushes for message: one row or none.  The
\* time of a row, a string of the wall clock, is left out.
evalStopRows(message) ==
    LET data == evalStopMatch(message)
    IN IF data = "" THEN <<>>
       ELSE LET parts == evalStopParts(data)
            IN IF Len(parts) = 5
               THEN <<[type |-> "foot", lDist |-> parts[1], rDist |-> parts[2],
                       lSpeed |-> parts[3], rSpeed |-> parts[4],
                       asymmetry |-> parts[5]]>>
               ELSE IF Len(parts) = 3
               THEN <<[type |-> "back", lTilt |-> parts[1], rTilt |-> parts[2],
                       asymmetry |-> parts[3]]>>
               ELSE <<>>

\* clearEvalData
clearEvalData ==
    /\ evalDataRows' = <<>>
    /\ last' = stepRecord("clearEvalData", <<>>, "", "cleared", <<>>)
    /\ UNCHANGED <<connVars, scanResults, received>>

-----------------------------------------------------------------------------
(* The texts of the notifications the specifications deliver.              *)

Markers ==
    <<"INIT_OK", "SCAN_STARTED", "DUP_MAC:", "DUP_LOC:", "LOC_NOT_ALLOWED:",
      "TYPE_FULL:", "NO_TYPE", "SLOT_FULL:">>

RawLines ==
    { BLE_RAW \o rest \o CRLF :
        rest \in {"+OK", "+READY", "+MULTI", "+CONN", "+CONN:1", "+DISCONN",
                  "+DISCONN:1", "+OKAY", "", "+OK INIT_OK", "SCAN_STARTED", "ERR"} }

ScanLines ==
    { SCAN_FOUND \o data \o CRLF :
        data \in {"AABBCCDDEEFF,Sensor1,-65", "AABBCCDDEEFF,Sensor1,-70",
                  "AABBCCDDEEFF,Sensor2,-80", "112233445566,Sensor2,-50",
                  "112233445566,Sensor2,xx", "AABBCCDDEEFF,Sensor1,",
                  "AABBCCDDEEFF,Sensor1", "AABBCCDDEEFF", "",
                  "778899AABBCC,INIT_OK,-60", "AABBCCDDEEFF,Sensor1,-65,7",
                  "AABBCCDDEEFF,Sensor1, 12dBm", "112233445566,Sensor2,- 50"} }

EvalLines ==
    { EVAL_STOP_OK \o data \o CRLF :
        data \in {"120,118,45,47,3", "12,14,5", "1,2,3,4", "1,2", "a,b,c", "",
                  "1,2,3 INIT_OK", "1,2,SCAN_STARTED", "1,2,NO_TYPE", "1, 2 ,3",
                  "-1,+2,3", "1,2,3,4,5,6", "1,,3", "1,2,3,4,x",
                  "1,2,3\r\n#MAN:TIMEOUT", "\n1,2,3", "1,2,3,DUP_MAC:,5"} }
    \cup { " " \o EVAL_STOP_OK \o "7,8,9" \o CRLF, "X" \o EVAL_STOP_OK \o "7,8,9" \o CRLF,
           "#ERR:" \o EVAL_STOP_OK \o "7,8,9" \o CRLF }

MarkerLines ==
    { head \o Markers[i] \o tail \o CRLF :
        head \in {"#DM:CONN:", "#ERR:DM:", "", "#EVAL:"},
        i \in 1..Len(Markers),
        tail \in {"", "2:4"} }
    \cup { "#DM:" \o Markers[i] \o "A:" \o Markers[j] \o CRLF :
             i \in 1..Len(Markers), j \in 1..Len(Markers) }

OtherLines ==
    { "#MAN:TIMEOUT" \o CRLF, "#MAN:TIMEOUT:INIT_OK" \o CRLF, "#MAN:TIMEOUTS" \o CRLF,
      "#ERR:DM:BAD_CMD" \o CRLF, "#ERR" \o CRLF, "#ERROR" \o CRLF, "#DM:TYPE:OK" \o CRLF,
      "#" \o CRLF, CRLF, "", "  \t ", "hello" \o CRLF, "$DM:STATUS:REQ" \o CRLF,
      "ERR:X" \o CRLF, "#DM:TYPE_FULL:2:4", "#EVAL:DATA:1,2,3" \o CRLF }

RxLines == RawLines \cup ScanLines \cup EvalLines \cup MarkerLines \cup OtherLines

\* the lines of the session specification
SessionLines ==
    { "#DM:SCAN:FOUND:AABBCCDDEEFF,Sensor1,-65\r\n",
      "#DM:SCAN:FOUND:AABBCCDDEEFF,Sensor2,-70\r\n",
      "#DM:SCAN:INIT_OK\r\n",
      "#EVAL:STOP:STOP_OK:12,14,5\r\n",
      "#EVAL:STOP:STOP_OK:a,b,c\r\n",
      "\r\n" }

-----------------------------------------------------------------------------
(* handleNotification.                                                     *)

MaxRows == 2

\* What handleNotification computes from the text of a notification alone:
\* the payload, the branch of updateDeviceStatus and the values it extracts,
\* the rows handleEvalStopData pushes, and whether the time-out is logged.
notificationOf(text) ==
    LET payload == parsePacket(text)
    IN IF payload = ""
       THEN [payload |-> payload, result |-> "ParseFailed", branch |-> "",
             fields |-> <<>>, rows |-> <<>>, timeout |-> FALSE]
       ELSE [payload |-> payload, result |-> "Handled",
             branch |-> statusBranch(payload),
             fields |-> statusFields(payload),
             rows |-> IF StartsWith(payload, EVAL_STOP_OK)
                      THEN evalStopRows(payload) ELSE <<>>,
             timeout |-> StartsWith(payload, "#MAN:TIMEOUT")]

\* notificationOf, computed once for each text the specifications deliver
Notification == [text \in SessionLines \cup RxLines |-> notificationOf(text)] @@ <<>>

\* One notification whose bytes decode to text, handled to completion.  It is
\* delivered by a notify characteristic that handleNotification was added to
\* and whose GATT server is connected.  The record of the step keeps what
\* scanResults and evalDataRows were when the notification arrived.
handleNotification(text) ==
    LET n == Notification[text]
    IN /\ \E c \in listening : c \in gattUp
       /\ IF n.result = "ParseFailed"
          THEN UNCHANGED <<evalDataRows, scanResults>>
          ELSE /\ scanResults' = updateDeviceStatus(scanResults, n.branch, n.fields)
               /\ evalDataRows' = evalDataRows \o n.rows
               /\ Len(evalDataRows') <= MaxRows
       /\ last' = [stepRecord("handleNotification", <<text>>, "", n.result, <<>>)
                     EXCEPT !.payload = n.payload, !.scanBefore = scanResults,
                            !.rowsBefore = evalDataRows, !.branch = n.branch,
                            !.fields = n.fields, !.timeout = n.timeout]
       /\ UNCHANGED connVars

-----------------------------------------------------------------------------
(* connectBluetooth and disconnectBluetooth.  A connect attempt is         *)
(* suspended at each await; the device the operator picks in the chooser   *)
(* names the attempt, and the objects the platform returns for it.         *)

Devices == {1, 2}

connectRecord(d, result) ==
    [stepRecord("connectBluetooth", <<>>, "", result, <<>>) EXCEPT !.device = d]

\* the call: lines 70 to 84, up to the first await
connectBluetooth(d) ==
    /\ pc[d] = "idle"
    /\ pc' = [pc EXCEPT ![d] = "requestDevice"]
    /\ last' = connectRecord(d, "Pending")
    /\ UNCHANGED <<bluetoothDevice, gattServer, writeCharacteristic,
                   notifyCharacteristic, isConnected, service, gattUp, listening,
                   evalDataRows, scanResults, received>>

\* requestDevice resolves: line 84, then the call of gatt.connect of line 87
requestDeviceResolved(d) ==
    /\ pc[d] = "requestDevice"
    /\ bluetoothDevice' = d
    /\ pc' = [pc EXCEPT ![d] = "gattConnect"]
    /\ last' = connectRecord(d, "Pending")
    /\ UNCHANGED <<gattServer, writeCharacteristic, notifyCharacteristic,
                   isConnected, service, gattUp, listening,
                   evalDataRows, scanResults, received>>

\* gatt.connect resolves: line 87, then the call of getPrimaryService
gattConnectResolved(d) ==
    /\ pc[d] = "gattConnect"
    /\ gattServer' = d
    /\ gattUp' = gattUp \cup {d}
    /\ pc' = [pc EXCEPT ![d] = "getPrimaryService"]
    /\ last' = connectRecord(d, "Pending")
    /\ UNCHANGED <<bluetoothDevice, writeCharacteristic, notifyCharacteristic,
                   isConnected, service, listening,
                   evalDataRows, scanResults, received>>

\* getPrimaryService resolves: line 88, then the call of line 91.  The
\* platform resolves a GATT operation only on a connected server.
getPrimaryServiceResolved(d) ==
    /\ pc[d] = "getPrimaryService"
    /\ d \in gattUp
    /\ service' = [service EXCEPT ![d] = d]
    /\ pc' = [pc EXCEPT ![d] = "getWriteCharacteristic"]
    /\ last' = connectRecord(d, "Pending")
    /\ UNCHANGED <<bluetoothDevice, gattServer, writeCharacteristic,
                   notifyCharacteristic, isConnected, gattUp, listening,
                   evalDataRows, scanResults, received>>

\* line 91, then the call of line 92
getWriteCharacteristicResolved(d) ==
    /\ pc[d] = "getWriteCharacteristic"
    /\ d \in gattUp
    /\ writeCharacteristic' = service[d]
    /\ pc' = [pc EXCEPT ![d] = "getNotifyCharacteristic"]
    /\ last' = connectRecord(d, "Pending")
    /\ UNCHANGED <<bluetoothDevice, gattServer, notifyCharacteristic, isConnected,
                   service, gattUp, listening, evalDataRows, scanResults, received>>

\* line 92, then the call of line 95
getNotifyCharacteristicResolved(d) ==
    /\ pc[d] = "getNotifyCharacteristic"
    /\ d \in gattUp
    /\ notifyCharacteristic' = service[d]
    /\ pc' = [pc EXCEPT ![d] = "startNotifications"]
    /\ last' = connectRecord(d, "Pending")
    /\ UNCHANGED <<bluetoothDevice, gattServer, writeCharacteristic, isConnected,
                   service, gattUp, listening, evalDataRows, scanResults, received>>

\* startNotifications resolves: lines 96 to 105.  Line 96 and line 100 read
\* the globals notifyCharacteristic and bluetoothDevice; reading a property
\* of null throws a TypeError, which the catch of line 107 handles.
startNotificationsResolved(d) ==
    /\ pc[d] = "startNotifications"
    /\ d \in gattUp
    /\ IF notifyCharacteristic = null
       THEN /\ last' = connectRecord(d, "Failed")
            /\ UNCHANGED <<isConnected, listening>>
       ELSE /\ listening' = listening \cup {notifyCharacteristic}
            /\ isConnected' = TRUE
            /\ last' = connectRecord(d, IF bluetoothDevice = null
                                        THEN "Failed" ELSE "Connected")
    /\ pc' = [pc EXCEPT ![d] = "idle"]
    /\ service' = [service EXCEPT ![d] = null]
    /\ UNCHANGED <<bluetoothDevice, gattServer, writeCharacteristic,
                   notifyCharacteristic, gattUp, evalDataRows, scanResults, received>>

\* the pending await rejects: the catch of lines 107 to 111
connectRejected(d) ==
    /\ pc[d] # "idle"
    /\ pc' = [pc EXCEPT ![d] = "idle"]
    /\ service' = [service EXCEPT ![d] = null]
    /\ last' = connectRecord(d, "Failed")
    /\ UNCHANGED <<bluetoothDevice, gattServer, writeCharacteristic,
                   notifyCharacteristic, isConnected, gattUp, listening,
                   evalDataRows, scanResults, received>>

\* the bug of dropping what the session has recorded when it disconnects
disconnectBluetoothForgetting ==
    /\ IF gattServer # null /\ gattServer \in gattUp
       THEN /\ gattUp' = gattUp \ {gattServer}
            /\ listening' = listening \ {gattServer}
       ELSE UNCHANGED <<gattUp, listening>>
    /\ isConnected' = FALSE
    /\ bluetoothDevice' = null
    /\ gattServer' = null
    /\ writeCharacteristic' = null
    /\ notifyCharacteristic' = null
    /\ evalDataRows' = <<>>
    /\ scanResults' = <<>>
    /\ last' = stepRecord("disconnectBluetooth", <<>>, "", "Disconnected", <<>>)
    /\ UNCHANGED <<pc, service, received>>

\* disconnectBluetooth.  Disconnecting a server invalidates its
\* characteristics, and with them the listeners added to them.
disconnectBluetooth ==
    /\ IF gattServer # null /\ gattServer \in gattUp
       THEN /\ gattUp' = gattUp \ {gattServer}
            /\ listening' = listening \ {gattServer}
       ELSE UNCHANGED <<gattUp, listening>>
    /\ isConnected' = FALSE
    /\ bluetoothDevice' = null
    /\ gattServer' = null
    /\ writeCharacteristic' = null
    /\ notifyCharacteristic' = null
    /\ last' = stepRecord("disconnectBluetooth", <<>>, "", "Disconnected", <<>>)
    /\ UNCHANGED <<pc, service, evalDataRows, scanResults, received>>

-----------------------------------------------------------------------------
(* The session: every operation, on a small set of inputs.                 *)

\* the state when the script has loaded: lines 13 to 19
Init ==
    /\ bluetoothDevice = null
    /\ gattServer = null
    /\ writeCharacteristic = null
    /\ notifyCharacteristic = null
    /\ isConnected = FALSE
    /\ evalDataRows = <<>>
    /\ scanResults = <<>>
    /\ pc = [d \in Devices |-> "idle"]
    /\ service = [d \in Devices |-> null]
    /\ gattUp = {}
    /\ listening = {}
    /\ received = 0
    /\ last = stepRecord("load", <<>>, "", "Loaded", <<>>)

SessionDevices == {1}

Connect ==
    \E d \in SessionDevices :
        \/ connectBluetooth(d)
        \/ requestDeviceResolved(d)
        \/ gattConnectResolved(d)
        \/ getPrimaryServiceResolved(d)
        \/ getWriteCharacteristicResolved(d)
        \/ getNotifyCharacteristicResolved(d)
        \/ startNotificationsResolved(d)
        \/ connectRejected(d)

Next ==
    \/ Connect
    \/ disconnectBluetooth
    \/ \E command \in SessionCommands : sendCommand(command)
    \/ \E type \in {"", "3"} : sendDeviceType(type)
    \/ \E freq \in {"", "40"}, clicked \in {<<>>, <<3, 1>>} :
          sendManualStart(freq, "5", "10", clicked)
    \/ \E mac \in {MacOf(6, ":"), MacOf(5, "")} : sendConnectDevice(mac, "L1")
    \/ \E text \in {" ", " DM:STATUS:REQ "} : sendCustomCommand(text)
    \/ \E text \in SessionLines : handleNotification(text) /\ UNCHANGED received
    \/ clearEvalData

Spec == Init /\ [][Next]_vars

-----------------------------------------------------------------------------
(* Inbound lines: handleNotification on a wide set of lines, from the      *)
(* state a successful connect to device 1 leaves.                          *)

MaxReceived == 2

\* the state after connectBluetooth has succeeded for device 1, with no scan
\* result yet or with the results of two scan lines
InitRx ==
    /\ bluetoothDevice = 1
    /\ gattServer = 1
    /\ writeCharacteristic = 1
    /\ notifyCharacteristic = 1
    /\ isConnected = TRUE
    /\ evalDataRows = <<>>
    /\ scanResults \in
         { <<>>,
           <<[mac |-> "AABBCCDDEEFF", rssi |-> <<-65>>, name |-> "Sensor1"],
             [mac |-> "112233445566", rssi |-> <<-50>>, name |-> "Sensor2"]>> }
    /\ pc = [d \in Devices |-> "idle"]
    /\ service = [d \in Devices |-> null]
    /\ gattUp = {1}
    /\ listening = {1}
    /\ received = 0
    /\ last = connectRecord(1, "Connected")

NextRx ==
    \E text \in RxLines :
        /\ received < MaxReceived
        /\ received' = received + 1
        /\ handleNotification(text)

SpecRx == InitRx /\ [][NextRx]_vars

-----------------------------------------------------------------------------
(* Outbound commands: sendCommand and the builders on a wide set of        *)
(* inputs, from the loaded state and from the connected state.             *)

\* the loaded state, or the state after connectBluetooth has succeeded for
\* device 1
InitTx ==
    /\ \/ /\ bluetoothDevice = null
          /\ gattServer = null
          /\ writeCharacteristic = null
          /\ notifyCharacteristic = null
          /\ isConnected = FALSE
          /\ gattUp = {}
          /\ listening = {}
          /\ evalDataRows = <<>>
          /\ scanResults = <<>>
          /\ last = stepRecord("load", <<>>, "", "Loaded", <<>>)
       \/ /\ bluetoothDevice = 1
          /\ gattServer = 1
          /\ writeCharacteristic = 1
          /\ notifyCharacteristic = 1
          /\ isConnected = TRUE
          /\ gattUp = {1}
          /\ listening = {1}
          /\ evalDataRows = <<[type |-> "back", lTilt |-> <<12>>, rTilt |-> <<14>>,
                               asymmetry |-> <<5>>]>>
          /\ scanResults = <<[mac |-> "AABBCCDDEEFF", rssi |-> <<-65>>,
                              name |-> "Sensor1"]>>
          /\ last = connectRecord(1, "Connected")
    /\ pc = [d \in Devices |-> "idle"]
    /\ service = [d \in Devices |-> null]
    /\ received = 0

NextTx ==
    \/ \E command \in TxCommands : sendCommand(command)
    \/ \E type \in DeviceTypes : sendDeviceType(type)
    \/ \E freq \in FieldValues, intensity \in {"", "5"}, duration \in {"", "10"},
          clicked \in Clicks :
          sendManualStart(freq, intensity, duration, clicked)
    \/ \E mac \in MacInputs, location \in Locations : sendConnectDevice(mac, location)
    \/ \E text \in CustomTexts : sendCustomCommand(text)
    \/ disconnectBluetooth

SpecTx == InitTx /\ [][NextTx]_vars

-----------------------------------------------------------------------------
(* The vocabulary of the claims: what the specification document means by  *)
(* an integer field, a well-formed line, a valid MAC and a frame's size.   *)
(* These are written from the document, independently of the operators     *)
(* above.                                                                  *)

SendOps ==
    {"sendCommand", "sendDeviceType", "sendManualStart", "sendConnectDevice",
     "sendCustomCommand"}

\* the step was a call of sendCommand that got as far as its connection gate
SendCalled(l) ==
    l.op \in SendOps /\ l.result \in {"NotConnected", "PayloadTooLong", "Sent", "SendFailed"}

Notified(l) == l.op = "handleNotification"

DecimalDigits == "0123456789"

IsDecimalDigit(c) == \E k \in 1..10 : CharAt(DecimalDigits, k) = c

\* s is an integer in decimal notation: an optional sign, then digits only
IsIntegerText(s) ==
    LET body == IF StartsWith(s, "-") \/ StartsWith(s, "+") THEN Substring(s, 1) ELSE s
    IN body # "" /\ \A i \in 1..Len(body) : IsDecimalDigit(CharAt(body, i))

\* the number an integer in decimal notation denotes
RECURSIVE DecimalValue(_, _)
DecimalValue(s, n) ==
    IF n = 0 THEN 0
    ELSE 10 * DecimalValue(s, n - 1)
         + (CHOOSE v \in 0..9 : CharAt(DecimalDigits, v + 1) = CharAt(s, n))

IntegerOf(s) ==
    IF StartsWith(s, "-") THEN 0 - DecimalValue(Substring(s, 1), Len(s) - 1)
    ELSE IF StartsWith(s, "+") THEN DecimalValue(Substring(s, 1), Len(s) - 1)
    ELSE DecimalValue(s, Len(s))

\* the comma-separated list that follows the prefix of a line
ListAfter(line, prefix) == Split(Substring(line, Len(prefix)), ",")

\* a #DM:SCAN:FOUND:<mac>,<name>,<rssi> line with an integer rssi
IsScanFound(line) ==
    /\ StartsWith(line, SCAN_FOUND)
    /\ Len(ListAfter(line, SCAN_FOUND)) >= 3
    /\ IsIntegerText(ListAfter(line, SCAN_FOUND)[3])

\* a #EVAL:STOP:STOP_OK: line whose list is exactly 5 or exactly 3 integers
IsEvaluationStop(line) ==
    /\ StartsWith(line, EVAL_STOP_OK)
    /\ Len(ListAfter(line, EVAL_STOP_OK)) \in {3, 5}
    /\ \A i \in 1..Len(ListAfter(line, EVAL_STOP_OK)) :
          IsIntegerText(ListAfter(line, EVAL_STOP_OK)[i])

\* the FootSummary or BackSummary of such a line
SummaryOf(line) ==
    LET f == ListAfter(line, EVAL_STOP_OK)
        v == [i \in 1..Len(f) |-> <<IntegerOf(f[i])>>]
    IN IF Len(f) = 5
       THEN [type |-> "foot", lDist |-> v[1], rDist |-> v[2], lSpeed |-> v[3],
             rSpeed |-> v[4], asymmetry |-> v[5]]
       ELSE [type |-> "back", lTilt |-> v[1], rTilt |-> v[2], asymmetry |-> v[3]]

\* the number of the first rule of the 14-rule priority list that line matches
RuleOf(line) ==
    IF StartsWith(line, BLE_RAW) THEN 1
    ELSE IF StartsWith(line, SCAN_FOUND) THEN 2
    ELSE IF Includes(line, "INIT_OK") \/ Includes(line, "SCAN_STARTED") THEN 3
    ELSE IF Includes(line, "DUP_MAC:") THEN 4
    ELSE IF Includes(line, "DUP_LOC:") THEN 5
    ELSE IF Includes(line, "LOC_NOT_ALLOWED:") THEN 6
    ELSE IF Includes(line, "TYPE_FULL:") THEN 7
    ELSE IF Includes(line, "NO_TYPE") THEN 8
    ELSE IF Includes(line, "SLOT_FULL:") THEN 9
    ELSE IF StartsWith(line, EVAL_STOP_OK) THEN 10
    ELSE IF StartsWith(line, "#MAN:TIMEOUT") THEN 11
    ELSE IF StartsWith(line, "#ERR") THEN 12
    ELSE IF StartsWith(line, "#") THEN 13
    ELSE 14

\* the InboundEvent variant the priority list gives line
VariantOf(line) ==
    LET r == RuleOf(line)
    IN IF r = 1 THEN "RawTransportEvent"
       ELSE IF r = 2 THEN (IF IsScanFound(line) THEN "ScanFound" ELSE "Unrecognized")
       ELSE IF r = 3 THEN "GenericSuccess"
       ELSE IF r = 4 THEN "DuplicateIdentifier"
       ELSE IF r = 5 THEN "DuplicateSlot"
       ELSE IF r = 6 THEN "SlotNotAllowed"
       ELSE IF r = 7 THEN "DeviceTypeFull"
       ELSE IF r = 8 THEN "NoDeviceTypeSet"
       ELSE IF r = 9 THEN "SlotCapacityExceeded"
       ELSE IF r = 10
       THEN (IF IsEvaluationStop(line) THEN "EvaluationStop" ELSE "Unrecognized")
       ELSE IF r = 11 THEN "EvaluationTimeout"
       ELSE IF r = 12 THEN "GenericError"
       ELSE IF r = 13 THEN "GenericSuccess"
       ELSE "Unrecognized"

\* The variants whose handling the program applied to the line of step l: the
\* one its status branch shows, EvaluationStop when a row was pushed and
\* EvaluationTimeout when the time-out was logged.  The three catch-all
\* branches count only when no handler of the line's own ran.
HandledAs(l, rowsNow) ==
    LET own ==
          (IF l.branch = "bleRaw" THEN {"RawTransportEvent"}
           ELSE IF l.branch = "scanFound" /\ l.fields # <<>> THEN {"ScanFound"}
           ELSE IF l.branch = "initOk" THEN {"GenericSuccess"}
           ELSE IF l.branch = "dupMac" THEN {"DuplicateIdentifier"}
           ELSE IF l.branch = "dupLoc" THEN {"DuplicateSlot"}
           ELSE IF l.branch = "locNotAllowed" THEN {"SlotNotAllowed"}
           ELSE IF l.branch = "typeFull" THEN {"DeviceTypeFull"}
           ELSE IF l.branch = "noType" THEN {"NoDeviceTypeSet"}
           ELSE IF l.branch = "slotFull" THEN {"SlotCapacityExceeded"}
           ELSE {})
          \cup (IF rowsNow # l.rowsBefore THEN {"EvaluationStop"} ELSE {})
          \cup (IF l.timeout THEN {"EvaluationTimeout"} ELSE {})
    IN IF own # {} THEN own
       ELSE IF l.branch = "error" THEN {"GenericError"}
       ELSE IF l.branch = "success" THEN {"GenericSuccess"}
       ELSE {"Unrecognized"}

IsHexChar(c) == \E k \in 1..16 : CharAt(HexDigits, k) = UpperChar(c)

\* the hexadecimal digits of s, in order and in upper case
RECURSIVE HexOf(_, _)
HexOf(s, i) ==
    IF i > Len(s) THEN ""
    ELSE (IF IsHexChar(CharAt(s, i)) THEN UpperChar(CharAt(s, i)) ELSE "") \o HexOf(s, i + 1)

\* s is 12 hexadecimal digits in either case, with any : and - among them
IsMacText(s) ==
    /\ \A i \in 1..Len(s) : IsHexChar(CharAt(s, i)) \/ CharAt(s, i) \in {":", "-"}
    /\ Len(HexOf(s, 1)) = 12

IsBlank(s) == \A i \in 1..Len(s) : IsWhiteSpace(CharAt(s, i))

\* the number of bytes of s in UTF-8
ByteCount(s) == Len(s) + 2 * Cardinality({i \in 1..Len(s) : CharAt(s, i) = WIDE})

\* the size of the frame of a command: the sigil, the body and the CRLF
\* terminator, which is added unless the body ends with one
FrameBytes(command) ==
    1 + ByteCount(command) + (IF EndsWith(command, CRLF) THEN 0 ELSE 2)

-----------------------------------------------------------------------------
(* The claims.                                                             *)

\* C1: a send attempted while the session is disconnected hands nothing to
\* the transport, and nothing is kept for later: every packet the transport
\* is handed is handed by a send made while connected, and is the frame of
\* the command of that very send.
C1_DisconnectedSendWritesNothing ==
    [][ /\ ~isConnected => last'.wrote = <<>>
        /\ last'.wrote # <<>> =>
              /\ SendCalled(last')
              /\ isConnected
              /\ LET frame == TextEncode("$" \o last'.command)
                 IN /\ Len(last'.wrote) = 1
                    /\ SubSeq(last'.wrote[1], 1, Len(frame)) = frame ]_vars

\* C1: a send has just been rejected as NotConnected, in a session that was
\* connected before (it has received a scan result) and is not any more
C1_Witness ==
    /\ last.op \in SendOps
    /\ last.result = "NotConnected"
    /\ last.command # ""
    /\ ~isConnected
    /\ scanResults # <<>>

\* C2: every packet handed to the transport is at most 64 bytes long, sigil
\* and terminator included; a command whose frame is longer is rejected as
\* PayloadTooLong and nothing is written, and a command that is sent is
\* written whole, as one packet.
C2_WritesAtMost64Bytes ==
    /\ \A i \in 1..Len(last.wrote) : Len(last.wrote[i]) <= 64
    /\ SendCalled(last) /\ FrameBytes(last.command) > 64 =>
          /\ last.wrote = <<>>
          /\ last.result \in {"PayloadTooLong", "NotConnected"}
          /\ isConnected => last.result = "PayloadTooLong"
    /\ SendCalled(last) /\ last.result \in {"Sent", "SendFailed"} =>
          /\ Len(last.wrote) = 1
          /\ Len(last.wrote[1]) = FrameBytes(last.command)

\* C2: a command of more than 64 bytes has just been rejected while connected
C2_Witness ==
    /\ SendCalled(last)
    /\ isConnected
    /\ FrameBytes(last.command) = 65
    /\ last.result = "PayloadTooLong"
    /\ last.wrote = <<>>

\* C3: every inbound line is handled as exactly one variant, the one of the
\* first rule of the priority list that the line matches.
C3_ExactlyOneVariantByPriority ==
    Notified(last) => HandledAs(last, evalDataRows) = {VariantOf(last.payload)}

\* C4: a line appends a summary to the history only if it starts with
\* #EVAL:STOP:STOP_OK: and its list is exactly 5 or exactly 3 integers; any
\* other line leaves the history as it was.
C4_SummaryOnlyFromIntegerFields ==
    Notified(last) /\ evalDataRows # last.rowsBefore => IsEvaluationStop(last.payload)

\* C5: the history is the sequence of the summaries of the valid
\* evaluation-stop lines received since the last reset: a reset empties it, a
\* valid evaluation-stop line appends its summary at the end, and every other
\* step leaves it as it was.
C5_HistoryIsSummariesSinceReset ==
    [][ IF last'.op = "clearEvalData"
        THEN evalDataRows' = <<>>
        ELSE IF Notified(last') /\ IsEvaluationStop(last'.payload)
        THEN evalDataRows' = Append(evalDataRows, SummaryOf(last'.payload))
        ELSE evalDataRows' = evalDataRows ]_vars

\* C6: the registry holds at most one record for an id; a ScanFound for an id
\* it holds changes the signal strength of that record and nothing else, and
\* a ScanFound for a new id appends one full record at the end.
C6_RegistryUpsert ==
    /\ \A i, j \in 1..Len(scanResults) :
          scanResults[i].mac = scanResults[j].mac => i = j
    /\ Notified(last) /\ IsScanFound(last.payload) =>
          LET f      == ListAfter(last.payload, SCAN_FOUND)
              before == last.scanBefore
          IN IF \E i \in 1..Len(before) : before[i].mac = f[1]
             THEN /\ Len(scanResults) = Len(before)
                  /\ \A i \in 1..Len(before) :
                        scanResults[i] =
                          IF before[i].mac = f[1]
                          THEN [before[i] EXCEPT !.rssi = <<IntegerOf(f[3])>>]
                          ELSE before[i]
             ELSE scanResults =
                    Append(before, [mac |-> f[1], rssi |-> <<IntegerOf(f[3])>>,
                                    name |-> f[2]])

\* C6: a ScanFound has just been handled for the id of the first of two
\* records, with another name and another signal strength
C6_Witness ==
    /\ Notified(last)
    /\ IsScanFound(last.payload)
    /\ Len(last.scanBefore) = 2
    /\ LET f == ListAfter(last.payload, SCAN_FOUND)
       IN /\ last.scanBefore[1].mac = f[1]
          /\ last.scanBefore[1].name # f[2]
          /\ last.scanBefore[1].rssi # <<IntegerOf(f[3])>>

\* C7: after a line that has neither of the two prefixes #BLE:RAW: and
\* #DM:SCAN:FOUND: and contains INIT_OK or SCAN_STARTED anywhere, the
\* registry is empty; a line with one of the two prefixes clears nothing.
C7_InitClearsRegistry ==
    Notified(last) =>
       /\ ( /\ ~StartsWith(last.payload, BLE_RAW)
            /\ ~StartsWith(last.payload, SCAN_FOUND)
            /\ Includes(last.payload, "INIT_OK") \/ Includes(last.payload, "SCAN_STARTED") )
          => scanResults = <<>>
       /\ StartsWith(last.payload, BLE_RAW) \/ StartsWith(last.payload, SCAN_FOUND) =>
             /\ Len(scanResults) >= Len(last.scanBefore)
             /\ \A i \in 1..Len(last.scanBefore) :
                   scanResults[i].mac = last.scanBefore[i].mac

\* C7: a line with the marker in its middle has just emptied a registry of
\* two records
C7_Witness ==
    /\ Notified(last)
    /\ ~StartsWith(last.payload, BLE_RAW)
    /\ ~StartsWith(last.payload, SCAN_FOUND)
    /\ ~StartsWith(last.payload, "INIT_OK")
    /\ Includes(last.payload, "INIT_OK")
    /\ Len(last.scanBefore) = 2
    /\ scanResults = <<>>

\* C8: a #DM:SCAN:FOUND: line with fewer than three fields, or whose rssi is
\* not an integer, is handled as Unrecognized and leaves the registry as it
\* was.
C8_MalformedScanLeavesRegistry ==
    Notified(last) /\ StartsWith(last.payload, SCAN_FOUND) /\ ~IsScanFound(last.payload) =>
       /\ scanResults = last.scanBefore
       /\ HandledAs(last, evalDataRows) = {"Unrecognized"}

\* C9, as stated: with every : and - taken out of the MAC input as typed, and
\* the rest in upper case, the builder produces DM:CONN:{mac}:{location}
\* exactly when 12 hexadecimal characters are what remains, and otherwise
\* produces and sends nothing.
C9_AsStated ==
    last.op = "sendConnectDevice" =>
       IF IsMacText(last.arg[1])
       THEN /\ last.command = "DM:CONN:" \o HexOf(last.arg[1], 1) \o ":" \o last.arg[2]
            /\ SendCalled(last)
       ELSE /\ last.command = ""
            /\ last.result = "InvalidMac"
            /\ last.wrote = <<>>

\* C9, amended: the same of the MAC input with the white space around it
\* taken off first.
C9_AfterTrim ==
    last.op = "sendConnectDevice" =>
       IF IsMacText(Trim(last.arg[1]))
       THEN /\ last.command =
                 "DM:CONN:" \o HexOf(Trim(last.arg[1]), 1) \o ":" \o last.arg[2]
            /\ SendCalled(last)
            /\ last.result = "Sent" =>
                  last.wrote = <<TextEncode("$" \o last.command \o CRLF)>>
       ELSE /\ last.command = ""
            /\ last.result = "InvalidMac"
            /\ last.wrote = <<>>

\* C9: a MAC typed in lower case with separators and white space around it
\* has just been sent
C9_Witness ==
    /\ last.op = "sendConnectDevice"
    /\ last.arg[1] # Trim(last.arg[1])
    /\ Includes(last.arg[1], "-")
    /\ Includes(last.arg[1], "f2")
    /\ last.command = "DM:CONN:5CF286477359:" \o last.arg[2]
    /\ last.result = "Sent"

\* the inputs of the step fail the validation of its builder
ValidationFails(l) ==
    \/ l.op = "sendConnectDevice" /\ ~IsMacText(Trim(l.arg[1]))
    \/ l.op = "sendManualStart"
         /\ (l.arg[1] = "" \/ l.arg[2] = "" \/ l.arg[3] = "" \/ l.clicked = <<>>)
    \/ l.op = "sendCustomCommand" /\ IsBlank(l.arg[1])
    \/ l.op = "sendDeviceType" /\ l.arg[1] = ""

\* C10: a builder whose inputs fail its validation writes nothing to the
\* transport and leaves the session state, the registry and the history as
\* they were.
C10_ValidationFailureChangesNothing ==
    [][ ValidationFails(last') =>
          /\ last'.wrote = <<>>
          /\ last'.command = ""
          /\ UNCHANGED <<connVars, scanResults, evalDataRows>> ]_vars

\* C10: a manual start with no location checked has just been refused while
\* connected, with a record in the registry and a row in the history
C10_Witness ==
    /\ last.op = "sendManualStart"
    /\ last.arg[1] # "" /\ last.arg[2] # "" /\ last.arg[3] # ""
    /\ last.clicked = <<>>
    /\ last.result = "MissingField"
    /\ isConnected
    /\ scanResults # <<>>
    /\ evalDataRows # <<>>

\* the codes of the boxes of clicked, in the order they were clicked
SelectionOrder(clicked) == [k \in 1..Len(clicked) |-> LocationCodes[clicked[k]]]

\* C11: a manual start with every field filled and at least one location
\* selected builds MAN:START:{freq},{intensity},{duration}, followed by the
\* location codes joined by commas in the order the operator selected them.
C11_LocationsInSelectionOrder ==
    /\ last.op = "sendManualStart"
    /\ last.arg[1] # "" /\ last.arg[2] # "" /\ last.arg[3] # ""
    /\ last.clicked # <<>>
    => last.command = "MAN:START:" \o last.arg[1] \o "," \o last.arg[2] \o ","
                      \o last.arg[3] \o "," \o Join(SelectionOrder(last.clicked), ",")

-----------------------------------------------------------------------------
(* The framer alone: buildPacket on a body, then parsePacket on the bytes  *)
(* it returned.                                                            *)

\* bodies with white space and line terminators on either side, and bodies
\* around the size limit
FrameBodies ==
    TxCommands \cup CustomTexts
    \cup { lead \o body \o trail :
             lead \in {"", " ", "\t"},
             body \in {"DM:STATUS:REQ", "", WIDE, "A B", "MAN:START:40,5,10,L1"},
             trail \in {"", " ", "\n", CRLF, CRLF \o CRLF} }

\* buildPacket(body)
framePacket(body) ==
    /\ LET packet == buildPacket(body)
       IN last' = IF packet = nullPacket
                  THEN stepRecord("buildPacket", <<body>>, "", "PayloadTooLong", <<>>)
                  ELSE stepRecord("buildPacket", <<body>>, "", "Built", <<packet>>)
    /\ UNCHANGED <<connVars, evalDataRows, scanResults, received>>

\* parsePacket on a buffer holding the bytes buildPacket returned
unframePacket ==
    /\ last.op = "buildPacket"
    /\ last.wrote # <<>>
    /\ last' = [stepRecord("parsePacket", last.arg, "", "Parsed", last.wrote)
                  EXCEPT !.payload = parsePacket(TextDecode(last.wrote[1]))]
    /\ UNCHANGED <<connVars, evalDataRows, scanResults, received>>

NextFrame ==
    \/ \E body \in FrameBodies : framePacket(body)
    \/ unframePacket

SpecFrame == Init /\ [][NextFrame]_vars

\* C12: for every body whose UTF-8 encoding with a CRLF is at most 64 bytes,
\* buildPacket succeeds, it appends a CRLF only when the body does not end
\* with one, and parsePacket of the bytes it returns is the body trimmed.
C12_FrameRoundTrip ==
    last.op \in {"buildPacket", "parsePacket"} /\ ByteCount(last.arg[1]) + 2 <= 64 =>
       /\ Len(last.wrote) = 1
       /\ Len(last.wrote[1]) =
             ByteCount(last.arg[1]) + (IF EndsWith(last.arg[1], CRLF) THEN 0 ELSE 2)
       /\ SubSeq(last.wrote[1], Len(last.wrote[1]) - 1, Len(last.wrote[1])) = <<13, 10>>
       /\ last.op = "parsePacket" => last.payload = Trim(last.arg[1])

\* C12: a body that begins with a blank and ends with a CRLF of its own has
\* made the round trip, with no terminator added
C12_Witness ==
    /\ last.op = "parsePacket"
    /\ StartsWith(last.arg[1], " ")
    /\ EndsWith(last.arg[1], CRLF)
    /\ Len(last.wrote[1]) = Len(last.arg[1])
    /\ last.payload = "DM:STATUS:REQ"

\* the positions of the colons of line
Colons(line) == {i \in 1..Len(line) : CharAt(line, i) = ":"}

\* the position of the k-th colon of line, 0 for k = 0 and one past the end of
\* the line when it has fewer than k colons
ColonAt(line, k) ==
    IF k = 0 THEN 0
    ELSE IF Cardinality(Colons(line)) < k THEN Len(line) + 1
    ELSE CHOOSE p \in Colons(line) : Cardinality({q \in Colons(line) : q < p}) = k - 1

\* the segment at index k (from 0) of line split on colons, dflt when the line
\* has no such segment
SegmentOr(line, k, dflt) ==
    IF Cardinality(Colons(line)) < k THEN dflt
    ELSE SubSeq(line, ColonAt(line, k) + 1, ColonAt(line, k + 1) - 1)

\* C13: the fields of a DuplicateIdentifier, DuplicateSlot, SlotNotAllowed,
\* DeviceTypeFull or SlotCapacityExceeded line are the segments at index 2
\* and 3 (index 2 only for SlotCapacityExceeded) of the whole line split on
\* colons, wherever the marker is, with "unknown", "?" or "8" for a segment
\* the line does not have.
C13_FieldsByColonIndex ==
    Notified(last) =>
       LET line == last.payload
           r    == RuleOf(line)
       IN /\ r \in {4, 5, 6} =>
                last.fields = <<SegmentOr(line, 2, "unknown"), SegmentOr(line, 3, "unknown")>>
          /\ r = 7 => last.fields = <<SegmentOr(line, 2, "?"), SegmentOr(line, 3, "?")>>
          /\ r = 9 => last.fields = <<SegmentOr(line, 2, "8")>>

\* C13: a DeviceTypeFull line whose marker is not its second segment has
\* been handled, and one of its fields is the default
C13_Witness ==
    /\ Notified(last)
    /\ RuleOf(last.payload) = 7
    /\ ~StartsWith(last.payload, "#DM:TYPE_FULL:")
    /\ last.fields[1] # "?"
    /\ last.fields[2] = "?"

-----------------------------------------------------------------------------
(* Connecting: two connect attempts, each suspended at its awaits, with    *)
(* disconnectBluetooth, a send and a notification between their steps.     *)

NextConn ==
    \/ \E d \in Devices : connectBluetooth(d)
    \/ \E d \in Devices : requestDeviceResolved(d)
    \/ \E d \in Devices : gattConnectResolved(d)
    \/ \E d \in Devices : getPrimaryServiceResolved(d)
    \/ \E d \in Devices : getWriteCharacteristicResolved(d)
    \/ \E d \in Devices : getNotifyCharacteristicResolved(d)
    \/ \E d \in Devices : startNotificationsResolved(d)
    \/ \E d \in Devices : connectRejected(d)
    \/ disconnectBluetooth
    \/ sendCommand("DM:STATUS:REQ")
    \/ handleNotification("#DM:SCAN:FOUND:AABBCCDDEEFF,Sensor1,-65\r\n") /\ UNCHANGED received

SpecConn == Init /\ [][NextConn]_vars

\* C14: the session state changes only by connect and disconnect: only a
\* successful connect makes it connected, only disconnect makes it
\* disconnected, and a connect attempt that fails, a send and an inbound line
\* leave it as it was.
C14_StateChangesOnlyByConnectAndDisconnect ==
    [][ /\ ~isConnected /\ isConnected' =>
              last'.op = "connectBluetooth" /\ last'.result = "Connected"
        /\ isConnected /\ ~isConnected' => last'.op = "disconnectBluetooth"
        /\ last'.op = "connectBluetooth" /\ last'.result = "Failed" =>
              isConnected' = isConnected
        /\ SendCalled(last') \/ Notified(last') => isConnected' = isConnected ]_vars

\* C19: whatever the interleaving of connect attempts and disconnects, while
\* isConnected is true the device, the GATT server and the two
\* characteristics are all there.
C19_ConnectedMeansAllHandles ==
    isConnected =>
       /\ bluetoothDevice # null
       /\ gattServer # null
       /\ writeCharacteristic # null
       /\ notifyCharacteristic # null

\* C15: nothing is retried: a send hands at most one packet to the
\* transport; when the write fails the failure is reported, the packet is not
\* written again, in that step or by a later step that is not a send of its
\* own, and the session state, the registry and the history stay as they were.
C15_NoRetry ==
    [][ /\ Len(last'.wrote) <= 1
        /\ ~SendCalled(last') => last'.wrote = <<>>
        /\ SendCalled(last') /\ last'.result = "SendFailed" =>
              /\ Len(last'.wrote) = 1
              /\ UNCHANGED <<connVars, scanResults, evalDataRows>>
        /\ SendCalled(last') /\ last'.result # "SendFailed" /\ last'.wrote # <<>> =>
              last'.result = "Sent" ]_vars

\* C15: the one write of a send has just failed, in a session with a record
\* in the registry
C15_Witness ==
    /\ SendCalled(last)
    /\ last.result = "SendFailed"
    /\ Len(last.wrote) = 1
    /\ isConnected
    /\ scanResults # <<>>

\* C16: a line has at most one of the three effects: a line that matches one
\* of the rules 1 to 9 appends nothing to the history, even when it starts
\* with #EVAL:STOP:STOP_OK:, and a line that appends to the history leaves
\* the registry as it was.
C16_OneSideEffect ==
    Notified(last) =>
       /\ RuleOf(last.payload) \in 1..9 => evalDataRows = last.rowsBefore
       /\ evalDataRows # last.rowsBefore => scanResults = last.scanBefore

BuilderOps == {"sendDeviceType", "sendManualStart", "sendConnectDevice", "sendCustomCommand"}

\* C17: every frame handed to the transport is the sigil $, the command body
\* and one CRLF.  The builders add neither a sigil nor a terminator to the
\* body (the free-form builder passes the trimmed text as it is), so for a
\* builder's command the frame is exactly $ body CRLF; a body passed to
\* sendCommand with a CRLF of its own is sent with that one.
C17_FrameIsSigilBodyTerminator ==
    /\ \A i \in 1..Len(last.wrote) :
          LET frame == TextDecode(last.wrote[i])
          IN /\ StartsWith(frame, "$")
             /\ EndsWith(frame, CRLF)
             /\ frame = "$" \o last.command
                        \o (IF EndsWith(last.command, CRLF) THEN "" ELSE CRLF)
    /\ last.op \in BuilderOps /\ last.command # "" =>
          /\ IF last.op = "sendCustomCommand" THEN last.command = Trim(last.arg[1])
             ELSE \E head \in {"DM:TYPE:", "MAN:START:", "DM:CONN:"} :
                     StartsWith(last.command, head)
          /\ ~EndsWith(last.command, "\n")
          /\ ~EndsWith(last.command, "\r")
          /\ last.wrote # <<>> =>
                TextDecode(last.wrote[1]) = "$" \o last.command \o CRLF

\* C17: the command of a builder has just been written, from an input that
\* had white space and a line terminator around it
C17_Witness ==
    /\ last.op = "sendCustomCommand"
    /\ EndsWith(last.arg[1], CRLF)
    /\ last.result = "Sent"
    /\ TextDecode(last.wrote[1]) = "$" \o last.command \o CRLF

\* the kinds whose condition the text after #BLE:RAW: meets
RawKinds(rest) ==
    {k \in {"+OK", "+READY", "+MULTI"} : rest = k}
    \cup {k \in {"+CONN", "+DISCONN"} : StartsWith(rest, k)}

\* C18: the kind of a #BLE:RAW: line depends only on the text after the
\* prefix: +OK, +READY or +MULTI when the text is exactly that, +CONN or
\* +DISCONN when it begins with that, unknown otherwise, and no text meets
\* two of the conditions; such a line changes neither the registry nor the
\* history, even when it contains INIT_OK or SCAN_STARTED.
C18_RawKind ==
    Notified(last) /\ StartsWith(last.payload, BLE_RAW) =>
       LET kinds == RawKinds(Substring(last.payload, Len(BLE_RAW)))
       IN /\ Cardinality(kinds) <= 1
          /\ last.fields = <<IF kinds = {} THEN "unknown" ELSE CHOOSE k \in kinds : TRUE>>
          /\ scanResults = last.scanBefore
          /\ evalDataRows = last.rowsBefore

\* C18: a #BLE:RAW: line that begins with +OK and contains INIT_OK has been
\* handled as unknown, with two records in the registry
C18_Witness ==
    /\ Notified(last)
    /\ StartsWith(last.payload, BLE_RAW \o "+OK")
    /\ Includes(last.payload, "INIT_OK")
    /\ last.fields = <<"unknown">>
    /\ Len(last.scanBefore) = 2
    /\ scanResults = last.scanBefore

\* C20: connecting, whether it succeeds or fails, and disconnecting leave the
\* history and the registry as they were; what they hold changes only when
\* an inbound line is handled or the history is reset.
C20_ConnectAndDisconnectKeepRecords ==
    [][ /\ last'.op \in {"connectBluetooth", "disconnectBluetooth"} =>
              UNCHANGED <<evalDataRows, scanResults>>
        /\ evalDataRows' # evalDataRows \/ scanResults' # scanResults =>
              last'.op \in {"handleNotification", "clearEvalData"} ]_vars

\* C20: the session has just been disconnected, and still holds a registry
\* record and a history row
C20_Witness ==
    /\ last.op = "disconnectBluetooth"
    /\ ~isConnected
    /\ scanResults # <<>>
    /\ evalDataRows # <<>>

=============================================================================
